---- MODULE Spec2Model ----
(***************************************************************************)
(* Model of the screener ratio service: logic.scrape_tables (table         *)
(* classification and normalisation), logic.calculate_ratios (per-period   *)
(* ratio derivation), app.analyze (per-company loop) and app.download      *)
(* (company-name blocks of the spreadsheet).                               *)
(*                                                                         *)
(* Strings that the code cleans are sequences of tokens (words, " ",       *)
(* the non-breaking space, "+"), so that cleaning is computed and not      *)
(* assumed.  Numbers are exact rationals [n, d]; NaN, None and a pandas    *)
(* Series (what .at returns for a repeated row label) are separate values. *)
(***************************************************************************)
EXTENDS Integers, Sequences, FiniteSets, TLC

VARIABLES
    \* scrape_tables
    tables,          \* the list pd.read_html returned
    ti,              \* position of the classification loop (1-based)
    bs, pnl,         \* index into tables of the selected frame, 0 for None
    scrapePc,        \* "scan" | "done" | "raised"
    bsOut, pnlOut,   \* the statements returned
    \* calculate_ratios
    cbs, cpnl,       \* the statements it was called with
    colIdx,          \* position of the loop over bs.columns
    results,         \* the list being built
    calcPc,          \* "loop" | "returned" | "raised"
    \* analyze
    companies, ci, all_results, errors, anPc,
    \* download
    dl_results, row_idx, current_company, start_row, writes, dlPc

scrapeVars == <<tables, ti, bs, pnl, scrapePc, bsOut, pnlOut>>
calcVars == <<cbs, cpnl, colIdx, results, calcPc>>
analyzeVars == <<companies, ci, all_results, errors, anPc>>
downloadVars == <<dl_results, row_idx, current_company, start_row, writes, dlPc>>
vars == <<scrapeVars, calcVars, analyzeVars, downloadVars>>

----------------------------------------------------------------------------
(* Bounds of the model *)

MaxTables == 3
MaxCols == 2
MaxCompanies == 3
MaxRows == 4

----------------------------------------------------------------------------
(* Values *)

NoneV == [k |-> "none"]
NaN == [k |-> "nan"]
SeriesV == [k |-> "series"]

RECURSIVE Gcd(_, _)
Gcd(a, b) == IF b = 0 THEN a ELSE Gcd(b, a % b)

Abs(x) == IF x < 0 THEN -x ELSE x

\* The rational n/d in lowest terms, d > 0.
Rat(n, d) ==
    LET s == IF d < 0 THEN -1 ELSE 1
        g == Gcd(Abs(n), Abs(d))
    IN  [k |-> "num", n |-> (s * n) \div g, d |-> (s * d) \div g]

Num(n) == Rat(n, 1)

IsNum(v) == v.k = "num"
IsNaN(v) == v.k = "nan"
IsNone(v) == v.k = "none"
IsSeries(v) == v.k = "series"

----------------------------------------------------------------------------
(* Labels: sequences of tokens *)

SP == " "
NBSP == "nbsp"
PLUS == "+"

EquityCapital == <<"Equity", SP, "Capital">>
EquityShareCapital == <<"Equity", SP, "Share", SP, "Capital">>
ShareCapital == <<"Share", SP, "Capital">>
Borrowings == <<"Borrowings">>
TotalLiabilities == <<"Total", SP, "Liabilities">>
Reserves == <<"Reserves">>
Sales == <<"Sales">>
Revenue == <<"Revenue">>
OperatingProfit == <<"Operating", SP, "Profit">>
OPMPct == <<"OPM", SP, "%">>
OPM == <<"OPM">>
ProfitBeforeTax == <<"Profit", SP, "before", SP, "tax">>
Interest == <<"Interest">>
CashFlow == <<"Cash", SP, "from", SP, "Operating", SP, "Activity">>

\* Column headers: two periods, a blank header and a missing (NaN) header.
P23 == <<"Mar", SP, "2023">>
P24 == <<"Mar", SP, "2024">>
BlankCol == <<SP>>
NaCol == <<"<NA>">>

\* s.replace(u'\xa0', ' ')
ReplaceNbsp(s) == [j \in 1..Len(s) |-> IF s[j] = NBSP THEN SP ELSE s[j]]

\* s.replace('+', '')
RemovePlus(s) == SelectSeq(s, LAMBDA t : t # PLUS)

\* What str.strip() removes at either end.
IsSpace(t) == t \in {SP, NBSP}

RECURSIVE LStrip(_)
LStrip(s) == IF s # <<>> /\ IsSpace(Head(s)) THEN LStrip(Tail(s)) ELSE s

RECURSIVE RStrip(_)
RStrip(s) ==
    IF s # <<>> /\ IsSpace(s[Len(s)])
    THEN RStrip(SubSeq(s, 1, Len(s) - 1))
    ELSE s

\* s.strip()
Strip(s) == RStrip(LStrip(s))

\* s.replace(u'\xa0', ' ').replace('+', '').strip()
CleanLabel(s) == Strip(RemovePlus(ReplaceNbsp(s)))

----------------------------------------------------------------------------
(* Raw tables, as pd.read_html returns them *)

\* Cells: a number read_html already parsed, a text such as "1,000" or
\* "15%" (a whole number is written without a decimal point), or a text that
\* is no number.
RInt(n) == [k |-> "int", v |-> Num(n)]
RFloat(n, d) == [k |-> "float", v |-> Rat(n, d)]
RTxt(n, d, comma, pct) == [k |-> "txt", v |-> Rat(n, d), comma |-> comma, pct |-> pct]
RJunk == [k |-> "junk"]

Row(label, cells) == [label |-> label, cells |-> cells]
Table(cols, rows) == [cols |-> cols, rows |-> rows]

\* df.empty
IsEmpty(df) == Len(df.rows) = 0

\* df.iloc[:, 0] cleaned, as a list
FirstCol(df) == [j \in 1..Len(df.rows) |-> CleanLabel(df.rows[j].label)]

In(x, list) == \E j \in 1..Len(list) : list[j] = x

BSPredicate(first_col) ==
    /\ (In(EquityCapital, first_col) \/ In(EquityShareCapital, first_col))
    /\ (In(Borrowings, first_col) \/ In(TotalLiabilities, first_col))

PnLPredicate(first_col) ==
    /\ (In(Sales, first_col) \/ In(Revenue, first_col))
    /\ In(OperatingProfit, first_col)

\* A selection that keeps the first match.
SelectBS_KeepFirst(old, j) == IF old = 0 THEN j ELSE old

\* bs = df (line 48): the frame at position j replaces whatever bs held.
SelectBS(old, j) == j

SelectPnl_KeepFirst(old, j) == IF old = 0 THEN j ELSE old

\* lines 54-57: both branches assign.
SelectPnl(old, j) == IF old = 0 THEN j ELSE j

\* The loop body without the "continue" of line 49.
ScanTable_NoContinue(sel, df, j) ==
    IF IsEmpty(df) THEN sel
    ELSE <<IF BSPredicate(FirstCol(df)) THEN SelectBS(sel[1], j) ELSE sel[1],
           IF PnLPredicate(FirstCol(df)) THEN SelectPnl(sel[2], j) ELSE sel[2]>>

\* One iteration of the loop of lines 38-57 on the frame at position j;
\* sel = <<bs, pnl>> as positions, 0 for None.
ScanTable(sel, df, j) ==
    IF IsEmpty(df) THEN sel
    ELSE IF BSPredicate(FirstCol(df)) THEN <<SelectBS(sel[1], j), sel[2]>>
    ELSE IF PnLPredicate(FirstCol(df)) THEN <<sel[1], SelectPnl(sel[2], j)>>
    ELSE sel

RECURSIVE ScanFrom(_, _, _)
ScanFrom(sel, tbls, j) ==
    IF j > Len(tbls) THEN sel ELSE ScanFrom(ScanTable(sel, tbls[j], j), tbls, j + 1)

\* The whole loop.
Classify(tbls) == ScanFrom(<<0, 0>>, tbls, 1)

\* line 59
ClassificationFails(sel) == sel[1] = 0 \/ sel[2] = 0

----------------------------------------------------------------------------
(* Normalisation, lines 62-82 *)

\* pd.to_numeric(errors='coerce') of one cell after the string replacements;
\* stripPct is TRUE for the P&L, whose "%" are removed first.
ToNumeric(c, stripPct) ==
    CASE c.k = "int" -> c.v
      [] c.k = "float" -> c.v
      [] c.k = "txt" -> IF c.pct /\ ~stripPct THEN NaN ELSE c.v
      [] OTHER -> NaN

\* Whether the cell comes out of the conversion as an integer.
ParsesInt(c, stripPct) ==
    \/ c.k = "int"
    \/ c.k = "txt" /\ c.v.d = 1 /\ (~c.pct \/ stripPct)

\* The dtype of column j after pd.to_numeric.
ColDtype(rows, j, stripPct) ==
    IF \A r \in 1..Len(rows) : ParsesInt(rows[r].cells[j], stripPct)
    THEN "int64" ELSE "float64"

\* lines 63-64, 66-67: the cleaned first column becomes the index.
SetIndex(rows) == [r \in 1..Len(rows) |-> Row(CleanLabel(rows[r].label), rows[r].cells)]

\* pnl[~pnl.index.duplicated(keep='first')]
RECURSIVE DropDuplicated(_, _)
DropDuplicated(rows, seen) ==
    IF rows = <<>> THEN <<>>
    ELSE IF Head(rows).label \in seen THEN DropDuplicated(Tail(rows), seen)
    ELSE <<Head(rows)>> \o DropDuplicated(Tail(rows), seen \cup {Head(rows).label})

Convert(cols, rows, stripPct) ==
    [cols |-> cols,
     dtypes |-> [j \in 1..Len(cols) |-> ColDtype(rows, j, stripPct)],
     rows |-> [r \in 1..Len(rows) |->
                 Row(rows[r].label,
                     [j \in 1..Len(cols) |-> ToNumeric(rows[r].cells[j], stripPct)])]]

\* The balance sheet keeps every row (lines 63, 66, 73-76).
NormalizeBS(df) == Convert(df.cols, SetIndex(df.rows), FALSE)

\* The P&L drops repeated labels (lines 64, 67, 70, 78-82).
NormalizePnl(df) == Convert(df.cols, DropDuplicated(SetIndex(df.rows), {}), TRUE)

\* scrape_tables after the page was fetched and parsed.
ScrapeTables(tbls) ==
    LET sel == Classify(tbls)
    IN  IF ClassificationFails(sel) THEN [k |-> "ValueError"]
        ELSE [k |-> "ok", bs |-> NormalizeBS(tbls[sel[1]]),
              pnl |-> NormalizePnl(tbls[sel[2]])]

----------------------------------------------------------------------------
(* calculate_ratios, lines 87-159 *)

KeyErr == [k |-> "KeyError"]
IsKeyErr(v) == v.k = "KeyError"

\* label in st.index
HasRow(st, label) == \E r \in 1..Len(st.rows) : st.rows[r].label = label

HasCol(st, col) == \E j \in 1..Len(st.cols) : st.cols[j] = col

ColPos(st, col) == CHOOSE j \in 1..Len(st.cols) : st.cols[j] = col

RowsOf(st, label) == {r \in 1..Len(st.rows) : st.rows[r].label = label}

\* An .at that reads a missing column as NaN.
At_MissingColumnIsNaN(st, label, col) ==
    IF ~HasRow(st, label) THEN KeyErr
    ELSE IF ~HasCol(st, col) THEN NaN
    ELSE IF Cardinality(RowsOf(st, label)) > 1 THEN SeriesV
    ELSE st.rows[CHOOSE r \in RowsOf(st, label) : TRUE].cells[ColPos(st, col)]

\* st.at[label, col]: KeyError for an unknown label or column, the cell for a
\* label that occurs once, a Series for a label that occurs several times.
At(st, label, col) ==
    IF ~HasRow(st, label) \/ ~HasCol(st, col) THEN KeyErr
    ELSE IF Cardinality(RowsOf(st, label)) > 1 THEN SeriesV
    ELSE st.rows[CHOOSE r \in RowsOf(st, label) : TRUE].cells[ColPos(st, col)]

\* The numpy type of the cells of a column.
DtypeAt(st, col) == st.dtypes[ColPos(st, col)]

RAdd(a, b) == Rat(a.n * b.d + b.n * a.d, a.d * b.d)
RDiv(a, b) == Rat(a.n * b.d, a.d * b.n)
RGreater(a, m) == a.n > m * a.d

\* a + b
VAdd(a, b) ==
    IF IsSeries(a) \/ IsSeries(b) THEN SeriesV
    ELSE IF IsNaN(a) \/ IsNaN(b) THEN NaN
    ELSE RAdd(a, b)

\* a / b for b that is not zero
VDiv(a, b) ==
    IF IsSeries(a) \/ IsSeries(b) THEN SeriesV
    ELSE IF IsNaN(a) \/ IsNaN(b) THEN NaN
    ELSE RDiv(a, b)

\* bool(v) of a scalar or None: NaN is true, zero and None are false.
Truthy(v) == IsNaN(v) \/ (IsNum(v) /\ v.n # 0)

\* pd.isna(v) of a scalar or None
IsNa(v) == IsNone(v) \/ IsNaN(v)

\* A clean_val that lets NaN through.
clean_val_KeepsNaN(val) == val

\* clean_val, lines 156-159, of a scalar or None
clean_val(val) == IF IsNone(val) \/ IsNaN(val) THEN NoneV ELSE val

\* A column test that skips only the missing header.
GarbageColumn_NaNOnly(col) == col = NaCol

\* line 92
GarbageColumn(col) == col = NaCol \/ Strip(col) = <<>>

\* lines 98-100
EquityKey(bsx) ==
    LET k1 == IF HasRow(bsx, EquityCapital) THEN EquityCapital ELSE EquityShareCapital
    IN  IF ~HasRow(bsx, k1) /\ HasRow(bsx, ShareCapital) THEN ShareCapital ELSE k1

\* line 105
SalesKey(pnlx) == IF HasRow(pnlx, Sales) THEN Sales ELSE Revenue

\* line 111
OpmKey(pnlx) == IF HasRow(pnlx, OPMPct) THEN OPMPct ELSE OPM

\* lines 120-126: a value that is an int, float or str is read as a float
\* and divided by 100 when it is above 1.  numpy.float64 is a float,
\* numpy.int64 is not an int.
ScaleOpm(opm, dtype) ==
    IF dtype = "float64"
    THEN IF RGreater(opm, 1) THEN RDiv(opm, Num(100)) ELSE opm
    ELSE opm

\* lines 111-126
Margin(pnlx, col, op_profit, revenue) ==
    LET opm == IF HasRow(pnlx, OpmKey(pnlx)) THEN At(pnlx, OpmKey(pnlx), col) ELSE NoneV
    IN  IF IsNa(opm)
        THEN IF Truthy(revenue) THEN VDiv(op_profit, revenue) ELSE NoneV
        ELSE ScaleOpm(opm, DtypeAt(pnlx, col))

\* lines 133-138
Ebit(pnlx, col) ==
    IF HasRow(pnlx, ProfitBeforeTax) /\ HasRow(pnlx, Interest)
    THEN VAdd(At(pnlx, ProfitBeforeTax, col), At(pnlx, Interest, col))
    ELSE NoneV

\* The body of the loop for one column: "skip" (line 93 or line 152),
\* "raise" (a ValueError leaves the function) or the record appended.
Period(bsx, pnlx, company, col) ==
    IF GarbageColumn(col) THEN [k |-> "skip", why |-> "garbage"]
    ELSE
    LET debt == At(bsx, Borrowings, col)
        eq1 == At(bsx, EquityKey(bsx), col)
        res == At(bsx, Reserves, col)
        revenue == At(pnlx, SalesKey(pnlx), col)
        op_profit == At(pnlx, OperatingProfit, col)
    IN  IF IsKeyErr(debt) \/ IsKeyErr(eq1) \/ IsKeyErr(res)
           \/ IsKeyErr(revenue) \/ IsKeyErr(op_profit)
        THEN [k |-> "skip", why |-> "KeyError"]
        ELSE
        LET equity == VAdd(eq1, res)
            opm == Margin(pnlx, col, op_profit, revenue)
            ebit == Ebit(pnlx, col)
            capital == VAdd(equity, debt)
        IN  \* line 141: (equity + debt) > 0 of a Series has no truth value
            IF ~IsNone(ebit) /\ IsSeries(capital) THEN [k |-> "raise"]
            \* line 147: "if equity" of a Series, and clean_val of a Series
            ELSE IF IsSeries(equity) THEN [k |-> "raise"]
            ELSE IF Truthy(equity) /\ IsSeries(debt) THEN [k |-> "raise"]
            ELSE
            LET roce == IF ~IsNone(ebit) /\ IsNum(capital) /\ RGreater(capital, 0)
                        THEN VDiv(ebit, capital) ELSE NoneV
                de == IF Truthy(equity) THEN VDiv(debt, equity) ELSE NoneV
            IN  [k |-> "rec",
                 rec |-> [Company |-> company,
                          Month |-> col,
                          Debt_to_Equity |-> clean_val(de),
                          Operating_Profit_Margin |-> clean_val(opm),
                          ROCE |-> clean_val(roce)]]

RECURSIVE RatiosFrom(_, _, _, _, _)
RatiosFrom(bsx, pnlx, company, j, acc) ==
    IF j > Len(bsx.cols) THEN [k |-> "ok", results |-> acc]
    ELSE LET p == Period(bsx, pnlx, company, bsx.cols[j])
         IN  IF p.k = "raise" THEN [k |-> "ValueError"]
             ELSE RatiosFrom(bsx, pnlx, company, j + 1,
                             IF p.k = "rec" THEN Append(acc, p.rec) ELSE acc)

\* The whole function.
calculate_ratios(bsx, pnlx, company) == RatiosFrom(bsx, pnlx, company, 1, <<>>)

----------------------------------------------------------------------------
(* The tables a page may hold *)

TEmpty == Table(<<P23>>, <<>>)

TOther == Table(<<P23>>, <<Row(CashFlow, <<RInt(10)>>)>>)

TBalance ==
    Table(<<P23>>,
          <<Row(<<"Equity", NBSP, "Capital">>, <<RInt(50)>>),
            Row(Reserves, <<RTxt(150, 1, FALSE, FALSE)>>),
            Row(<<"Borrowings", SP, PLUS>>, <<RInt(100)>>)>>)

\* "Borrowings" twice once cleaned, and no "Reserves".
TBalanceDup ==
    Table(<<P23>>,
          <<Row(EquityShareCapital, <<RInt(50)>>),
            Row(Borrowings, <<RInt(100)>>),
            Row(<<"Borrowings", PLUS>>, <<RInt(70)>>)>>)

TProfit ==
    Table(<<P23>>,
          <<Row(<<"Sales", SP, PLUS>>, <<RTxt(1000, 1, TRUE, FALSE)>>),
            Row(OperatingProfit, <<RInt(200)>>),
            Row(OPMPct, <<RTxt(20, 1, FALSE, TRUE)>>)>>)

\* "Revenue" twice once cleaned.
TProfitDup ==
    Table(<<P23>>,
          <<Row(Revenue, <<RInt(1000)>>),
            Row(<<NBSP, "Operating", NBSP, "Profit">>, <<RInt(200)>>),
            Row(<<"Revenue", NBSP>>, <<RInt(999)>>)>>)

\* A table that satisfies both keyword tests.
TBoth ==
    Table(<<P23>>,
          <<Row(EquityCapital, <<RInt(50)>>),
            Row(Borrowings, <<RInt(100)>>),
            Row(Sales, <<RInt(1000)>>),
            Row(OperatingProfit, <<RInt(200)>>)>>)

TableCatalogue == {TEmpty, TOther, TBalance, TBalanceDup, TProfit, TProfitDup, TBoth}

Pages == UNION {[1..n -> TableCatalogue] : n \in 0..MaxTables}

----------------------------------------------------------------------------
(* scrape_tables as a state machine *)

ScrapeIdle ==
    /\ tables = <<>> /\ ti = 1 /\ bs = 0 /\ pnl = 0
    /\ scrapePc = "idle" /\ bsOut = NoneV /\ pnlOut = NoneV

CalcIdle ==
    /\ cbs = NoneV /\ cpnl = NoneV /\ colIdx = 1 /\ results = <<>> /\ calcPc = "idle"

AnalyzeIdle ==
    /\ companies = <<>> /\ ci = 1 /\ all_results = <<>> /\ errors = <<>>
    /\ anPc = "idle"

DownloadIdle ==
    /\ dl_results = <<>> /\ row_idx = 1 /\ current_company = "<None>"
    /\ start_row = 1 /\ writes = <<>> /\ dlPc = "idle"

InitScrape ==
    /\ tables \in Pages
    /\ ti = 1 /\ bs = 0 /\ pnl = 0
    /\ scrapePc = "scan" /\ bsOut = NoneV /\ pnlOut = NoneV
    /\ CalcIdle /\ AnalyzeIdle /\ DownloadIdle

\* lines 38-57, one frame
ScanStep ==
    /\ scrapePc = "scan" /\ ti <= Len(tables)
    /\ LET sel == ScanTable(<<bs, pnl>>, tables[ti], ti)
       IN  bs' = sel[1] /\ pnl' = sel[2]
    /\ ti' = ti + 1
    /\ UNCHANGED <<tables, scrapePc, bsOut, pnlOut, calcVars, analyzeVars, downloadVars>>

\* lines 59-60
ScrapeRaise ==
    /\ scrapePc = "scan" /\ ti > Len(tables)
    /\ ClassificationFails(<<bs, pnl>>)
    /\ scrapePc' = "raised"
    /\ UNCHANGED <<tables, ti, bs, pnl, bsOut, pnlOut, calcVars, analyzeVars, downloadVars>>

\* lines 62-84
ScrapeReturn ==
    /\ scrapePc = "scan" /\ ti > Len(tables)
    /\ ~ClassificationFails(<<bs, pnl>>)
    /\ bsOut' = NormalizeBS(tables[bs])
    /\ pnlOut' = NormalizePnl(tables[pnl])
    /\ scrapePc' = "done"
    /\ UNCHANGED <<tables, ti, bs, pnl, calcVars, analyzeVars, downloadVars>>

NextScrape == ScanStep \/ ScrapeRaise \/ ScrapeReturn

SpecScrape == InitScrape /\ [][NextScrape]_vars

----------------------------------------------------------------------------
(* Claims about scrape_tables *)

MatchesBS(df) == ~IsEmpty(df) /\ BSPredicate(FirstCol(df))
MatchesPnL(df) == ~IsEmpty(df) /\ PnLPredicate(FirstCol(df))

ScrapeEnded == scrapePc \in {"done", "raised"}

\* The positions among the first n frames that satisfy a test.
BSPositions(n) == {j \in 1..n : MatchesBS(tables[j])}
PnLPositions(n) == {j \in 1..n : MatchesPnL(tables[j])}
PnLOnlyPositions(n) == PnLPositions(n) \ BSPositions(n)

Last(S) == IF S = {} THEN 0 ELSE CHOOSE j \in S : \A m \in S : m <= j
First(S) == IF S = {} THEN 0 ELSE CHOOSE j \in S : \A m \in S : j <= m

Scanned == IF scrapePc = "idle" THEN 0 ELSE ti - 1

\* C1 as stated: whenever some non-empty table satisfies the Balance Sheet
\* test and some non-empty table satisfies the Profit & Loss test,
\* classification returns both statements.
C1_AsStated ==
    ScrapeEnded =>
        (BSPositions(Len(tables)) # {} /\ PnLPositions(Len(tables)) # {}
            => scrapePc = "done" /\ bsOut # NoneV /\ pnlOut # NoneV)

\* C1 amended: classification returns both statements exactly when some
\* non-empty table satisfies the Balance Sheet test and some non-empty table
\* satisfies the Profit & Loss test without satisfying the Balance Sheet
\* test; otherwise it raises.
C1_Classification ==
    ScrapeEnded =>
        /\ scrapePc = "done" <=>
              (BSPositions(Len(tables)) # {} /\ PnLOnlyPositions(Len(tables)) # {})
        /\ scrapePc = "done" => bs # 0 /\ pnl # 0 /\ bsOut # NoneV /\ pnlOut # NoneV
        /\ scrapePc = "raised" => bsOut = NoneV /\ pnlOut = NoneV

\* Both statements are returned from a page that also holds a table
\* satisfying both tests.
C1_Witness ==
    /\ scrapePc = "done"
    /\ BSPositions(Len(tables)) \cap PnLPositions(Len(tables)) # {}
    /\ PnLOnlyPositions(Len(tables)) # {}

\* C2 as stated: the Balance Sheet is the first frame scanned so far that
\* satisfies the Balance Sheet test.
C2_AsStated == scrapePc # "idle" => bs = First(BSPositions(Scanned))

\* C2 amended: the Balance Sheet is the last frame scanned so far that
\* satisfies the Balance Sheet test; a later match replaces an earlier one.
C2_LastBalanceSheet == scrapePc # "idle" => bs = Last(BSPositions(Scanned))

\* scrape_tables returned from a page with several Balance Sheet candidates.
C2_Witness == scrapePc = "done" /\ Cardinality(BSPositions(Len(tables))) >= 2

\* C3 as stated: the Profit & Loss is the last frame scanned so far that
\* satisfies the Profit & Loss test, also when that frame satisfies the
\* Balance Sheet test.
C3_AsStated == scrapePc # "idle" => pnl = Last(PnLPositions(Scanned))

\* C3 amended: the Profit & Loss is the last frame scanned so far that
\* satisfies the Profit & Loss test and not the Balance Sheet test.
C3_LastProfitAndLoss == scrapePc # "idle" => pnl = Last(PnLOnlyPositions(Scanned))

\* scrape_tables returned from a page with several Profit & Loss candidates,
\* the last of which is also a Balance Sheet candidate.
C3_Witness ==
    /\ scrapePc = "done"
    /\ Cardinality(PnLOnlyPositions(Len(tables))) >= 2
    /\ Last(PnLPositions(Len(tables))) \in BSPositions(Len(tables))

NoRepeatedLabel(st) ==
    \A r1, r2 \in 1..Len(st.rows) : st.rows[r1].label = st.rows[r2].label => r1 = r2

\* The first row of the raw frame whose cleaned label is the given one.
FirstRowOf(df, label) ==
    df.rows[First({r \in 1..Len(df.rows) : CleanLabel(df.rows[r].label) = label})]

KeepsFirst(st, df, stripPct) ==
    \A r \in 1..Len(st.rows) : \A j \in 1..Len(st.cols) :
        st.rows[r].cells[j] = ToNumeric(FirstRowOf(df, st.rows[r].label).cells[j], stripPct)

\* C9: in both statements returned by scrape_tables no cleaned label occurs
\* in more than one row, and a repeated label keeps the values of its first
\* occurrence.
C9_UniqueLabels ==
    scrapePc = "done" =>
        /\ NoRepeatedLabel(bsOut) /\ KeepsFirst(bsOut, tables[bs], FALSE)
        /\ NoRepeatedLabel(pnlOut) /\ KeepsFirst(pnlOut, tables[pnl], TRUE)

\* The part of C9 that the code keeps: the Profit & Loss statement.
C9_PnlUniqueLabels ==
    scrapePc = "done" =>
        /\ NoRepeatedLabel(pnlOut) /\ KeepsFirst(pnlOut, tables[pnl], TRUE)
        /\ \A r \in 1..Len(tables[pnl].rows) :
              HasRow(pnlOut, CleanLabel(tables[pnl].rows[r].label))

C9_PnlWitness ==
    scrapePc = "done" /\ Len(pnlOut.rows) < Len(tables[pnl].rows)

----------------------------------------------------------------------------
(* The statements calculate_ratios is called with: scrape_tables applied to *)
(* a balance sheet and a P&L built from a row layout and, per period       *)
(* column, one profile of cell values.                                     *)

\* Row layouts of the balance sheet: label and the role of its cells.  The
\* reference layout, one without "Borrowings", one without "Reserves", one
\* with "Borrowings" twice and one with "Reserves" twice.
BSReferenceShape ==
    <<Row(EquityCapital, "eq"), Row(Reserves, "res"), Row(<<"Borrowings", SP, PLUS>>, "debt")>>

BSRepeatedShape ==
    <<Row(EquityCapital, "eq"), Row(Reserves, "res"), Row(Borrowings, "debt"),
      Row(<<"Borrowings", PLUS>>, "other")>>

BSShapes ==
    { BSReferenceShape,
      <<Row(EquityShareCapital, "eq"), Row(Reserves, "res"), Row(TotalLiabilities, "other")>>,
      <<Row(EquityShareCapital, "eq"), Row(Borrowings, "debt")>>,
      BSRepeatedShape,
      <<Row(EquityCapital, "eq"), Row(Reserves, "res"), Row(<<NBSP, "Reserves">>, "other"),
        Row(Borrowings, "debt")>> }

\* Cell values of one balance sheet column: the reference values, a
\* "Borrowings" cell that is no number, and reserves that cancel the equity.
BSReference == [debt |-> RInt(100), eq |-> RInt(50), res |-> RInt(150), other |-> RInt(70)]

BSProfiles ==
    { BSReference,
      [debt |-> RJunk, eq |-> RInt(50), res |-> RInt(150), other |-> RInt(70)],
      [debt |-> RInt(100), eq |-> RInt(50), res |-> RInt(-50), other |-> RInt(70)] }

PnlReferenceShape ==
    <<Row(<<"Sales", SP, PLUS>>, "rev"), Row(OperatingProfit, "op"), Row(OPMPct, "opm"),
      Row(ProfitBeforeTax, "pbt"), Row(Interest, "int")>>

PnlNoInterestShape ==
    <<Row(Sales, "rev"), Row(OperatingProfit, "op"), Row(ProfitBeforeTax, "pbt")>>

PnlShapes ==
    { PnlReferenceShape,
      <<Row(Revenue, "rev"), Row(OperatingProfit, "op"), Row(OPM, "opm")>>,
      PnlNoInterestShape }

\* Each layout varies against the other statement's reference layout; the
\* repeated "Borrowings" also meets the P&L without "Interest".
ShapePairs ==
    {sp \in BSShapes \X PnlShapes :
        \/ sp[1] = BSReferenceShape
        \/ sp[2] = PnlReferenceShape
        \/ sp = <<BSRepeatedShape, PnlNoInterestShape>>}

PnlProfile(rev, opm) ==
    [rev |-> rev, op |-> RInt(200), opm |-> opm, pbt |-> RInt(80), int |-> RInt(20)]

PnlReference == PnlProfile(RFloat(1000, 1), RFloat(15, 1))

\* Cell values of one P&L column: the reported margin is 15.0, "15%" among
\* whole numbers, 0.15, -15.0, or no number (with and without sales).
PnlProfiles ==
    { PnlReference,
      PnlProfile(RInt(1000), RTxt(15, 1, FALSE, TRUE)),
      PnlProfile(RFloat(1000, 1), RFloat(15, 100)),
      PnlProfile(RFloat(1000, 1), RFloat(-15, 1)),
      PnlProfile(RInt(1000), RJunk),
      PnlProfile(RInt(0), RJunk) }

Absent == [absent |-> TRUE]

ColumnLabels == {P23, P24, BlankCol, NaCol}

\* A period column: its header, its balance sheet cells and its P&L cells
\* (Absent when the P&L has no such column).  Each side varies against the
\* other side's reference values, and against a P&L without the column.
ColumnProfiles ==
    {c \in [b : BSProfiles, p : PnlProfiles \cup {Absent}] :
        c.b = BSReference \/ c.p \in {PnlReference, Absent}}

\* Headers are distinct, as read_html leaves them; at most one is blank or
\* missing.
HeaderRows ==
    UNION { {h \in [1..n -> ColumnLabels] :
                /\ \A j1, j2 \in 1..n : h[j1] = h[j2] => j1 = j2
                /\ Cardinality({j \in 1..n : h[j] \in {BlankCol, NaCol}}) <= 1}
            : n \in 0..MaxCols }

ColumnLayouts ==
    UNION { {[j \in 1..Len(h) |-> [label |-> h[j], b |-> c[j].b, p |-> c[j].p]]
                : c \in [1..Len(h) -> ColumnProfiles]}
            : h \in HeaderRows }

BuildBS(shape, cs) ==
    Table([j \in 1..Len(cs) |-> cs[j].label],
          [r \in 1..Len(shape) |->
              Row(shape[r].label, [j \in 1..Len(cs) |-> cs[j].b[shape[r].cells]])])

\* The P&L has the columns whose profile is not Absent.
BuildPnl(shape, cs) ==
    LET present == SelectSeq(cs, LAMBDA c : c.p # Absent)
    IN  Table([j \in 1..Len(present) |-> present[j].label],
              [r \in 1..Len(shape) |->
                  Row(shape[r].label,
                      [j \in 1..Len(present) |-> present[j].p[shape[r].cells]])])

CompanyName == "Acme Ltd"

InitRatios ==
    /\ \E sp \in ShapePairs, cs \in ColumnLayouts :
          LET r == ScrapeTables(<<BuildBS(sp[1], cs), BuildPnl(sp[2], cs)>>)
          IN  cbs = r.bs /\ cpnl = r.pnl
    /\ colIdx = 1 /\ results = <<>> /\ calcPc = "loop"
    /\ ScrapeIdle /\ AnalyzeIdle /\ DownloadIdle

\* lines 90-152, one column
CalcPeriod ==
    /\ calcPc = "loop" /\ colIdx <= Len(cbs.cols)
    /\ LET p == Period(cbs, cpnl, CompanyName, cbs.cols[colIdx])
       IN  IF p.k = "raise"
           THEN calcPc' = "raised" /\ UNCHANGED <<colIdx, results>>
           ELSE /\ results' = IF p.k = "rec" THEN Append(results, p.rec) ELSE results
                /\ colIdx' = colIdx + 1
                /\ UNCHANGED calcPc
    /\ UNCHANGED <<cbs, cpnl, scrapeVars, analyzeVars, downloadVars>>

\* line 154
CalcReturn ==
    /\ calcPc = "loop" /\ colIdx > Len(cbs.cols)
    /\ calcPc' = "returned"
    /\ UNCHANGED <<cbs, cpnl, colIdx, results, scrapeVars, analyzeVars, downloadVars>>

NextRatios == CalcPeriod \/ CalcReturn

SpecRatios == InitRatios /\ [][NextRatios]_vars

----------------------------------------------------------------------------
(* Claims about calculate_ratios *)

\* Columns whose loop body has run to its end.
Processed == IF calcPc = "idle" THEN 0 ELSE colIdx - 1

Months(rs) == [j \in 1..Len(rs) |-> rs[j].Month]

\* A period label that is neither missing nor blank.
ValidPeriod(c) == c # NaCol /\ \E j \in 1..Len(c) : c[j] \notin {SP, NBSP}

RecordsOf(c) == {j \in 1..Len(results) : results[j].Month = c}

HasEquityRow ==
    \/ HasRow(cbs, EquityCapital) \/ HasRow(cbs, EquityShareCapital)
    \/ HasRow(cbs, ShareCapital)

\* Every row and column the loop body looks up with .at exists.
LookupsSucceed(c) ==
    /\ HasRow(cbs, Borrowings) /\ HasEquityRow /\ HasRow(cbs, Reserves)
    /\ HasCol(cpnl, c)
    /\ (HasRow(cpnl, Sales) \/ HasRow(cpnl, Revenue))
    /\ HasRow(cpnl, OperatingProfit)

\* C4 as stated: the Months of the records returned are the valid period
\* columns of the Balance Sheet, in order.
C4_AsStated ==
    calcPc = "returned" =>
        Months(results) = SelectSeq(cbs.cols, LAMBDA c : ValidPeriod(c))

\* C4 amended: the Months of the records are, in the Balance Sheet's column
\* order and without repetition, the valid period columns processed so far
\* for which every lookup succeeds.
C4_MonthsInColumnOrder ==
    calcPc # "idle" =>
        Months(results) = SelectSeq(SubSeq(cbs.cols, 1, Processed),
                                    LAMBDA c : ValidPeriod(c) /\ LookupsSucceed(c))

\* calculate_ratios returned two records and skipped a valid period.
C4_Witness ==
    /\ calcPc = "returned"
    /\ Len(results) >= 1
    /\ Len(results) < Len(SelectSeq(cbs.cols, LAMBDA c : ValidPeriod(c)))

BSCell(label, c) == At(cbs, label, c)

EquityLabel ==
    IF HasRow(cbs, EquityCapital) THEN EquityCapital
    ELSE IF HasRow(cbs, EquityShareCapital) THEN EquityShareCapital
    ELSE ShareCapital

\* A valid period of the Balance Sheet with numeric Borrowings, equity line
\* and Reserves, equity not zero, that the P&L has no column for.
OnlyInBalanceSheet(c) ==
    /\ ValidPeriod(c) /\ HasCol(cbs, c) /\ ~HasCol(cpnl, c)
    /\ IsNum(BSCell(Borrowings, c)) /\ IsNum(BSCell(EquityLabel, c))
    /\ IsNum(BSCell(Reserves, c))
    /\ RAdd(BSCell(EquityLabel, c), BSCell(Reserves, c)).n # 0

\* C5 as stated: such a period yields a record with Debt_to_Equity = debt /
\* equity and Operating_Profit_Margin and ROCE null.
C5_AsStated ==
    calcPc = "returned" =>
        \A j \in 1..Len(cbs.cols) :
            OnlyInBalanceSheet(cbs.cols[j]) =>
                \E i \in RecordsOf(cbs.cols[j]) :
                    /\ results[i].Debt_to_Equity =
                          RDiv(BSCell(Borrowings, cbs.cols[j]),
                               RAdd(BSCell(EquityLabel, cbs.cols[j]),
                                    BSCell(Reserves, cbs.cols[j])))
                    /\ results[i].Operating_Profit_Margin = NoneV
                    /\ results[i].ROCE = NoneV

\* C5 amended: such a period yields no record and no exception.
C5_PeriodOmitted ==
    calcPc # "idle" =>
        /\ \A j \in 1..Processed :
              OnlyInBalanceSheet(cbs.cols[j]) => RecordsOf(cbs.cols[j]) = {}
        /\ calcPc = "raised" => ~OnlyInBalanceSheet(cbs.cols[colIdx])

\* calculate_ratios returned records although one period is missing from
\* the P&L.
C5_Witness ==
    /\ calcPc = "returned"
    /\ results # <<>>
    /\ \E j \in 1..Len(cbs.cols) : OnlyInBalanceSheet(cbs.cols[j])

\* A valid period whose single "Borrowings" cell is missing.
BorrowingsMissing(c) ==
    /\ ValidPeriod(c) /\ HasCol(cbs, c)
    /\ Cardinality(RowsOf(cbs, Borrowings)) = 1
    /\ IsNaN(BSCell(Borrowings, c))

\* C6 as stated: a period whose "Borrowings" cell is missing yields no record.
C6_AsStated ==
    calcPc = "returned" =>
        \A j \in 1..Len(cbs.cols) :
            BorrowingsMissing(cbs.cols[j]) => RecordsOf(cbs.cols[j]) = {}

\* C6 amended: a period whose "Borrowings" cell is missing, and whose
\* lookups all succeed, yields one record with Debt_to_Equity and ROCE null.
C6_RecordWithNulls ==
    calcPc # "idle" =>
        \A j \in 1..Processed :
            BorrowingsMissing(cbs.cols[j]) /\ LookupsSucceed(cbs.cols[j]) =>
                /\ Cardinality(RecordsOf(cbs.cols[j])) = 1
                /\ \A i \in RecordsOf(cbs.cols[j]) :
                      /\ results[i].Debt_to_Equity = NoneV
                      /\ results[i].ROCE = NoneV

\* calculate_ratios returned a record for a period without Borrowings and a
\* record with a Debt_to_Equity for another period.
C6_Witness ==
    /\ calcPc = "returned"
    /\ \E j \in 1..Len(cbs.cols) :
          BorrowingsMissing(cbs.cols[j]) /\ RecordsOf(cbs.cols[j]) # {}
    /\ \E i \in 1..Len(results) : IsNum(results[i].Debt_to_Equity)

ReportedMarginLabel == IF HasRow(cpnl, OPMPct) THEN OPMPct ELSE OPM

Magnitude(v) == Rat(Abs(v.n), v.d)

\* C7: a record of a period with a reported margin v holds v / 100 when the
\* magnitude of v exceeds 1 and v when it does not.
C7_ReportedMarginScaled ==
    \A i \in 1..Len(results) :
        LET c == results[i].Month
        IN  (HasRow(cpnl, ReportedMarginLabel) /\ HasCol(cpnl, c)
                /\ IsNum(At(cpnl, ReportedMarginLabel, c)))
            => LET v == At(cpnl, ReportedMarginLabel, c)
               IN  results[i].Operating_Profit_Margin =
                      IF RGreater(Magnitude(v), 1) THEN RDiv(v, Num(100)) ELSE v

\* A repeated "Borrowings" makes .at return a Series: the call raises, or,
\* when equity is zero and no EBIT is computed, appends a record.  A
\* repeated "Reserves" always raises.
SeriesRaises == calcPc = "raised" /\ Cardinality(RowsOf(cbs, Borrowings)) > 1
EquitySeriesRaises == calcPc = "raised" /\ Cardinality(RowsOf(cbs, Reserves)) > 1
SeriesRecord ==
    /\ calcPc = "returned" /\ Cardinality(RowsOf(cbs, Borrowings)) > 1
    /\ results # <<>>

----------------------------------------------------------------------------
(* analyze, app.py lines 41-65 *)

TwoPeriods ==
    <<[label |-> P23, b |-> BSReference, p |-> PnlReference],
      [label |-> P24, b |-> BSReference, p |-> PnlReference]>>

\* What the site answers for each name typed: search_company returns None,
\* raises, or returns (id, name, url); the url's page is fetched and parsed
\* into tables, or the request raises.
Site(company) ==
    CASE company = "alpha" ->
            [search |-> "found", name |-> "Alpha Ltd", fetch |-> "ok",
             page |-> <<TOther, TProfit, TBalance>>]
      [] company = "beta" ->
            [search |-> "found", name |-> "Beta Ltd", fetch |-> "ok",
             page |-> <<BuildBS(BSReferenceShape, TwoPeriods),
                        BuildPnl(PnlReferenceShape, TwoPeriods)>>]
      [] company = "gamma" -> [search |-> "none"]
      [] company = "delta" -> [search |-> "raise"]
      [] company = "epsilon" ->
            [search |-> "found", name |-> "Epsilon Ltd", fetch |-> "ok",
             page |-> <<TOther, TBalance>>]
      [] company = "zeta" ->
            [search |-> "found", name |-> "Zeta Ltd", fetch |-> "ok",
             page |-> <<BuildBS(BSRepeatedShape, TwoPeriods),
                        BuildPnl(PnlReferenceShape, TwoPeriods)>>]
      [] OTHER -> [search |-> "found", name |-> "Eta Ltd", fetch |-> "raise"]

CompanyNames == {"alpha", "beta", "gamma", "delta", "epsilon", "zeta", "eta"}

ErrorOf(company, what) == [company |-> company, message |-> what]

\* A loop body that drops the message of an exception.
AnalyzeCompany_SwallowsException(acc, company) ==
    LET site == Site(company)
    IN  IF site.search = "none"
        THEN [acc EXCEPT !.errors = Append(@, ErrorOf(company, "Not found"))]
        ELSE IF site.search = "raise" \/ site.fetch = "raise" THEN acc
        ELSE LET scraped == ScrapeTables(site.page)
             IN  IF scraped.k # "ok" THEN acc
                 ELSE LET ratios == calculate_ratios(scraped.bs, scraped.pnl, site.name)
                      IN  IF ratios.k # "ok" THEN acc
                          ELSE [acc EXCEPT !.all_results = @ \o ratios.results]

\* One iteration of the loop of lines 44-60; acc = [all_results, errors].
AnalyzeCompany(acc, company) ==
    LET site == Site(company)
    IN  IF site.search = "raise"
        THEN [acc EXCEPT !.errors = Append(@, ErrorOf(company, "HTTPError"))]
        ELSE IF site.search = "none"
        THEN [acc EXCEPT !.errors = Append(@, ErrorOf(company, "Not found"))]
        ELSE IF site.fetch = "raise"
        THEN [acc EXCEPT !.errors = Append(@, ErrorOf(company, "HTTPError"))]
        ELSE LET scraped == ScrapeTables(site.page)
             IN  IF scraped.k # "ok"
                 THEN [acc EXCEPT !.errors = Append(@, ErrorOf(company, scraped.k))]
                 ELSE LET ratios == calculate_ratios(scraped.bs, scraped.pnl, site.name)
                      IN  IF ratios.k # "ok"
                          THEN [acc EXCEPT !.errors = Append(@, ErrorOf(company, ratios.k))]
                          ELSE [acc EXCEPT !.all_results = @ \o ratios.results]

\* The request names at least one company (line 37).
CompanyLists == UNION {[1..n -> CompanyNames] : n \in 1..MaxCompanies}

InitAnalyze ==
    /\ companies \in CompanyLists
    /\ ci = 1 /\ all_results = <<>> /\ errors = <<>> /\ anPc = "loop"
    /\ ScrapeIdle /\ CalcIdle /\ DownloadIdle

AnalyzeStep ==
    /\ anPc = "loop" /\ ci <= Len(companies)
    /\ LET acc == AnalyzeCompany([all_results |-> all_results, errors |-> errors],
                                 companies[ci])
       IN  all_results' = acc.all_results /\ errors' = acc.errors
    /\ ci' = ci + 1
    /\ UNCHANGED <<companies, anPc, scrapeVars, calcVars, downloadVars>>

\* lines 62-65
AnalyzeReturn ==
    /\ anPc = "loop" /\ ci > Len(companies)
    /\ anPc' = "returned"
    /\ UNCHANGED <<companies, ci, all_results, errors, scrapeVars, calcVars, downloadVars>>

NextAnalyze == AnalyzeStep \/ AnalyzeReturn

SpecAnalyze == InitAnalyze /\ [][NextAnalyze]_vars

----------------------------------------------------------------------------
(* Claim about analyze *)

\* The records of a company, <<>> when anything fails for it.
RecordsFor(company) ==
    LET site == Site(company)
    IN  IF site.search # "found" \/ site.fetch # "ok" THEN <<>>
        ELSE LET scraped == ScrapeTables(site.page)
             IN  IF scraped.k # "ok" THEN <<>>
                 ELSE LET ratios == calculate_ratios(scraped.bs, scraped.pnl, site.name)
                      IN  IF ratios.k = "ok" THEN ratios.results ELSE <<>>

Fails(company) ==
    LET site == Site(company)
    IN  \/ site.search # "found"
        \/ site.fetch # "ok"
        \/ ScrapeTables(site.page).k # "ok"
        \/ LET scraped == ScrapeTables(site.page)
           IN  calculate_ratios(scraped.bs, scraped.pnl, site.name).k # "ok"

RECURSIVE Concat(_)
Concat(ss) == IF ss = <<>> THEN <<>> ELSE Head(ss) \o Concat(Tail(ss))

Handled == IF anPc = "idle" THEN 0 ELSE ci - 1

\* C8: after any number of companies, the results are the records of the
\* companies that succeeded, in input order, and there is exactly one error
\* message per failing company, in input order; the loop runs to the end of
\* the list.
C8_FailuresAreIsolated ==
    anPc # "idle" =>
        /\ all_results = Concat([j \in 1..Handled |-> RecordsFor(companies[j])])
        /\ [j \in 1..Len(errors) |-> errors[j].company]
              = SelectSeq(SubSeq(companies, 1, Handled), Fails)
        /\ anPc = "returned" => Handled = Len(companies)

\* analyze returned results although the first and the last company failed.
C8_Witness ==
    /\ anPc = "returned"
    /\ Len(companies) = 3
    /\ Fails(companies[1]) /\ ~Fails(companies[2]) /\ Fails(companies[3])
    /\ all_results # <<>> /\ Len(errors) = 2

----------------------------------------------------------------------------
(* download, app.py lines 118-169 *)

\* row_data.get("Company") of a record without the key
NoCompany == "<None>"

DownloadCompanies == {"A", "B", NoCompany}

\* The request holds at least one record (line 76).
ResultLists ==
    UNION {[1..n -> [Company : DownloadCompanies]] : n \in 1..MaxRows}

\* lines 154-157 and 166-169: one cell, or one merged range
BlockWrite(first, last, name) ==
    [call |-> IF first = last THEN "write" ELSE "merge_range",
     first |-> first, last |-> last, name |-> name]

\* An end of block that includes the row of the next company.
EndRow_CurrentRow(idx) == idx

\* line 153
EndRow(idx) == idx - 1

InitDownload ==
    /\ dl_results \in ResultLists
    /\ row_idx = 1 /\ current_company = NoCompany /\ start_row = 1
    /\ writes = <<>> /\ dlPc = "loop"
    /\ ScrapeIdle /\ CalcIdle /\ AnalyzeIdle

\* lines 121-161, the writes to column 0 of one row
DownloadRow ==
    /\ dlPc = "loop" /\ row_idx <= Len(dl_results)
    /\ LET company == dl_results[row_idx].Company
       IN  IF company # current_company
           THEN /\ writes' = IF current_company # NoCompany
                             THEN Append(writes,
                                         BlockWrite(start_row, EndRow(row_idx), current_company))
                             ELSE writes
                /\ current_company' = company
                /\ start_row' = row_idx
           ELSE UNCHANGED <<writes, current_company, start_row>>
    /\ row_idx' = row_idx + 1
    /\ UNCHANGED <<dl_results, dlPc, scrapeVars, calcVars, analyzeVars>>

\* lines 164-169
DownloadLast ==
    /\ dlPc = "loop" /\ row_idx > Len(dl_results)
    /\ writes' = IF current_company # NoCompany
                 THEN Append(writes, BlockWrite(start_row, Len(dl_results), current_company))
                 ELSE writes
    /\ dlPc' = "done"
    /\ UNCHANGED <<dl_results, row_idx, current_company, start_row,
                   scrapeVars, calcVars, analyzeVars>>

NextDownload == DownloadRow \/ DownloadLast

SpecDownload == InitDownload /\ [][NextDownload]_vars

----------------------------------------------------------------------------
(* Claim about download *)

CompanyAt(j) == dl_results[j].Company

AllNamed == \A j \in 1..Len(dl_results) : CompanyAt(j) # NoCompany

\* The maximal runs of equal Company among rows 1..n, in row order.
IsRun(a, b, n) ==
    /\ a <= b
    /\ \A j \in a..b : CompanyAt(j) = CompanyAt(a)
    /\ (a = 1 \/ CompanyAt(a - 1) # CompanyAt(a))
    /\ (b = n \/ CompanyAt(b + 1) # CompanyAt(b))

RunEnd(a, n) == CHOOSE b \in a..n : IsRun(a, b, n)

RECURSIVE RunsFrom(_, _)
RunsFrom(a, n) ==
    IF a > n THEN <<>>
    ELSE <<[first |-> a, last |-> RunEnd(a, n), name |-> CompanyAt(a),
            call |-> IF RunEnd(a, n) = a THEN "write" ELSE "merge_range"]>>
         \o RunsFrom(RunEnd(a, n) + 1, n)

\* C10: when every record names its company, the writes to column 0 are the
\* maximal runs of equal Company, one write per run, every data row in
\* exactly one of them; the last run is written once the loop has ended.
C10_BlocksAreRuns ==
    (dlPc # "idle" /\ AllNamed) =>
        /\ dlPc = "done" =>
              /\ writes = RunsFrom(1, Len(dl_results))
              /\ \A r \in 1..Len(dl_results) :
                    Cardinality({w \in 1..Len(writes) :
                                    writes[w].first <= r /\ r <= writes[w].last}) = 1
        \* in the loop the run that is still open is the only one not written
        /\ dlPc = "loop" /\ row_idx > 1 =>
              /\ writes \o <<BlockWrite(start_row, row_idx - 1, current_company)>>
                    = RunsFrom(1, row_idx - 1)

\* download wrote a single-cell block and a merged block, the last one
\* after the loop.
C10_Witness ==
    /\ dlPc = "done" /\ AllNamed
    /\ \E w1, w2 \in 1..Len(writes) :
          writes[w1].call = "write" /\ writes[w2].call = "merge_range"
    /\ Len(writes) >= 3

----------------------------------------------------------------------------
(* The service: any one of the four operations *)

Init == InitScrape \/ InitRatios \/ InitAnalyze \/ InitDownload

Next == NextScrape \/ NextRatios \/ NextAnalyze \/ NextDownload

Spec == Init /\ [][Next]_vars

====
